---- MODULE Spec2Model ----
(***************************************************************************)
(* Patient / scan / result lifecycle of the glioma segmentation            *)
(* workstation: the current backend (src/backend/main.py) and the V1       *)
(* backend (src/V1/backend/main.py), with the artifact helpers of          *)
(* src/V1/backend/segmentation.py.                                         *)
(*                                                                         *)
(* Every HTTP handler is a coroutine.  It can be overtaken by other        *)
(* requests exactly at its awaited database calls, so a handler is cut     *)
(* into one action per awaited call: the action performs the database      *)
(* operation and the synchronous code that follows it up to the next       *)
(* await.  The blocking inference / artifact block of segment_scan is an   *)
(* action of its own.  The patient collection is a sequence in insertion   *)
(* (natural) order; find_one, update_one and delete_one act on the first   *)
(* document that matches.                                                  *)
(***************************************************************************)
EXTENDS Integers, Sequences, FiniteSets, TLC

VARIABLES
    gen,        \* which backend generation is deployed: "V2" (current) or "V1"
    patients,   \* patient_collection: sequence of patient documents
    fs,         \* the filesystem: function from path to the data written there
    inflight,   \* requests suspended at an await
    started,    \* number of requests received so far (also the uuid4 source)
    resp,       \* the response sent by the last step, if it sent one
    issued      \* history: <<patient_id, scan_id>> pairs returned by uploads

vars == <<gen, patients, fs, inflight, started, resp, issued>>

----------------------------------------------------------------------------
(* Bounds of the model *)

MaxOps == 4         \* requests received in one behaviour
MaxConc == 2        \* requests in flight at the same time
NumSlices == 2      \* slices along the slicing axis of the volume

----------------------------------------------------------------------------
(* Inputs *)

\* patient ids as clients send them: strings as sequences of characters
RawIds == {<<"a">>, <<"a", ".">>}
Names == {"n1"}
NoName == ""
Modalities == <<"t1c", "t1n", "t2f", "t2w">>

----------------------------------------------------------------------------
(* sanitize_patient_id: re.sub(r'[^a-zA-Z0-9_-]', '', patient_id) *)

AllowedChars ==
    {"a","b","c","d","e","f","g","h","i","j","k","l","m","n","o","p","q","r",
     "s","t","u","v","w","x","y","z",
     "A","B","C","D","E","F","G","H","I","J","K","L","M","N","O","P","Q","R",
     "S","T","U","V","W","X","Y","Z",
     "0","1","2","3","4","5","6","7","8","9","_","-"}

IsAllowed(c) == c \in AllowedChars

sanitize_patient_id(patient_id) == SelectSeq(patient_id, IsAllowed)

----------------------------------------------------------------------------
(* Response details, as sequences of words *)

AlreadyExistsDetail == <<"Patient", "with", "this", "ID", "already", "exists">>
PatientNotFoundDetail == <<"Patient", "not", "found">>
ScanNotFoundDetail == <<"Scan", "not", "found">>
RegisterFirstDetail ==
    <<"Patient", "not", "found.", "Please", "register", "patient", "first.">>
InvalidFormatDetail == <<"Invalid", "file", "format">>
InvalidZipTypeDetail == <<"Invalid", "file", "type.">>
NoDetail == <<>>

\* str(HTTPException(status_code=404, detail=d)) is "404: d"
StrHTTP404(d) == <<"404:">> \o d

\* detail=f"Internal server error: {str(e)}"
InternalErrorDetail(cause) == <<"Internal", "server", "error:">> \o cause

\* V1: detail="Internal server error"
InternalErrorDetailV1 == <<"Internal", "server", "error">>

\* word sequence s occurs in word sequence t
Contains(t, s) ==
    \E i \in 0..(Len(t) - Len(s)) : \A k \in 1..Len(s) : t[i + k] = s[k]

----------------------------------------------------------------------------
(* Paths of the artifact store *)

UPLOAD_DIR == "uploads"
OUTPUT_DIR == "static/outputs"

\* a path: root directory, patient directory, optional scan directory or scan
\* prefix (<<>> or <<s>>), file name ("" for a directory) and slice index
\* (-1 when the name carries none)
Path(root, pid, sid, name, idx) ==
    [root |-> root, pid |-> pid, sid |-> sid, name |-> name, idx |-> idx]

REPORTS_DIR == "static/reports"

\* os.path.join(UPLOAD_DIR, patient_id), os.path.join(OUTPUT_DIR, patient_id)
PatientDir(root, pid) == Path(root, pid, <<>>, "", -1)

\* os.path.join(patient_dir, name) for an uploaded or extracted file
UploadPath(pid, name) == Path(UPLOAD_DIR, pid, <<>>, name, -1)

\* os.path.join(output_dir, patient_id, scan_id)
ScanOutDir(pid, sid) == Path(OUTPUT_DIR, pid, <<sid>>, "", -1)

\* os.path.join(patient_dir, f"slice_{i}.png")
SlicePath(pid, sid, i) == Path(OUTPUT_DIR, pid, <<sid>>, "slice.png", i)

\* os.path.join(patient_dir, f"slice_{i}_overlay.png")
OverlayPath(pid, sid, i) == Path(OUTPUT_DIR, pid, <<sid>>, "slice_overlay.png", i)

\* a mask file name that also carries the number of requests received
MaskPathStamped(pid, sid) ==
    Path(UPLOAD_DIR, pid, <<sid>>, "_mask.nii.gz", started)

\* os.path.join(patient_dir, f"{scan_id}_mask.nii.gz")
MaskPath(pid, sid) == Path(UPLOAD_DIR, pid, <<sid>>, "_mask.nii.gz", -1)

\* os.path.join(REPORTS_DIR, f"{patient_id}_{scan_id}_report.pdf")
ReportPath(pid, sid) == Path(REPORTS_DIR, pid, <<sid>>, "_report.pdf", -1)

\* to_static_url: "/static/" + relpath(path, "static")
StaticPrefix == "/"
to_static_url(p) == [p EXCEPT !.root = StaticPrefix \o p.root]

\* the StaticFiles mount of "/static" on the directory "static": the file
\* that a stored URL resolves to
UrlToFile(u) ==
    [u EXCEPT !.root = IF u.root = StaticPrefix \o OUTPUT_DIR THEN OUTPUT_DIR
                       ELSE u.root]

DirData == 0

\* the content of a file of zero bytes
EmptyData == -1

Exists(f, p) == p \in DOMAIN f

\* open(path, "wb").write(data) and the like: create or overwrite
WriteFile(f, p, d) == [q \in (DOMAIN f) \cup {p} |-> IF q = p THEN d ELSE f[q]]

\* write every path of the set ps with data d
WriteAll(f, ps, d) == [q \in (DOMAIN f) \cup ps |-> IF q \in ps THEN d ELSE f[q]]

\* os.makedirs(dir, exist_ok=True): the directories are created if absent
MakeDirs(f, ds) ==
    [q \in (DOMAIN f) \cup ds |-> IF q \in DOMAIN f THEN f[q] ELSE DirData]

\* shutil.rmtree(os.path.join(root, pid)), guarded by os.path.exists
RmTree(f, root, pid) ==
    [q \in {p \in DOMAIN f : ~(p.root = root /\ p.pid = pid)} |-> f[q]]

----------------------------------------------------------------------------
(* The patient collection *)

Min(S) == CHOOSE x \in S : \A y \in S : x <= y

\* find_one({"patient_id": pid}): index of the first match, 0 for None
get_patient(patient_id) ==
    LET m == {i \in 1..Len(patients) : patients[i].patient_id = patient_id}
    IN  IF m = {} THEN 0 ELSE Min(m)

\* a registration that never finds an existing document
register_exists_never(patient_id) == FALSE

\* the register_patient test "if existing_patient"
register_exists(patient_id) == get_patient(patient_id) # 0

\* an array update that puts the new element first
PushFront(seq, x) == <<x>> \o seq

\* "$push": append at the end of the array
Push(seq, x) == Append(seq, x)

\* the document a filter {"patient_id": pid} matches first, when one matches
Matched(patient_id) == patients[get_patient(patient_id)]

\* update_one({"patient_id": pid}, ...): the first match becomes updated,
\* nothing happens when nothing matches
update_one(patient_id, updated) ==
    LET k == get_patient(patient_id)
    IN  IF k = 0 THEN patients ELSE [patients EXCEPT ![k] = updated]

\* delete_one({"patient_id": pid}): the first match is removed
delete_one(patient_id) ==
    LET k == get_patient(patient_id)
    IN  IF k = 0 THEN patients
        ELSE [i \in 1..(Len(patients) - 1) |->
                 IF i < k THEN patients[i] ELSE patients[i + 1]]

\* insert_one(doc)
insert_one(doc) == Append(patients, doc)

\* str(uuid.uuid4()): a request draws at most one uuid, modelled by the
\* number of the request, which no other request has
uuid4(rid) == rid

\* new_patient of register_patient
NewPatient(rid, patient_id, name, t) ==
    [id |-> uuid4(rid), patient_id |-> patient_id, name |-> name,
     created_timestamp |-> t, last_updated |-> t,
     scans |-> <<>>, segmentation_results |-> <<>>]

\* Scan(scan_id=scan_id, **file_paths), upload_timestamp by default_factory
Scan(scan_id, file_paths, t) ==
    [scan_id |-> scan_id, t1c |-> file_paths.t1c, t1n |-> file_paths.t1n,
     t2f |-> file_paths.t2f, t2w |-> file_paths.t2w, upload_timestamp |-> t]

ScanIds(doc) == {doc.scans[i].scan_id : i \in 1..Len(doc.scans)}

\* the scan lookup loop of segment_scan: first scan with that scan_id, 0 if none
FindScan(doc, scan_id) ==
    LET m == {i \in 1..Len(doc.scans) : doc.scans[i].scan_id = scan_id}
    IN  IF m = {} THEN 0 ELSE Min(m)

----------------------------------------------------------------------------
(* Requests and events *)

\* a suspended request: its number, operation and program point, and the local
\* variables the rest of the handler reads (sanitized patient id, scan id,
\* name to set, file paths, timestamps already read, result already built)
Req(rid, op, pc, pid, sid, name, files, t, t2, res) ==
    [rid |-> rid, op |-> op, pc |-> pc, pid |-> pid, sid |-> sid,
     name |-> name, files |-> files, t |-> t, t2 |-> t2, res |-> res]

\* the answer to request rid of operation op, given at program point at: the
\* HTTP status and detail, the sanitized patient id, the scan id concerned
Response(rid, op, at, status, detail, pid, sid) ==
    [rid |-> rid, op |-> op, at |-> at, status |-> status, detail |-> detail,
     pid |-> pid, sid |-> sid]

\* a request may arrive; the number it gets is used up only when the request
\* suspends at an await (a request answered at once leaves no trace of it)
\* the last step sent no response
NoResponse == Response(0, "none", "none", 0, NoDetail, <<>>, 0)

Admit(limit) == started < limit /\ Cardinality(inflight) < MaxConc
NextRid == started + 1

\* datetime.now(): the clock has advanced once for every request received;
\* n is the number of requests received when it is read
Clock(n) == n

Init ==
    /\ gen \in {"V2", "V1"}
    /\ patients = <<>>
    /\ fs = [p \in {PatientDir(UPLOAD_DIR, <<>>), PatientDir(OUTPUT_DIR, <<>>),
                     PatientDir(REPORTS_DIR, <<>>)}
                |-> DirData]
    /\ inflight = {}
    /\ started = 0
    /\ resp = NoResponse
    /\ issued = {}

----------------------------------------------------------------------------
(* register_patient *)

\* find_one, the duplicate test and the construction of new_patient
RegisterFind(patient_id, name) ==
    /\ gen = "V2"
    /\ IF register_exists(patient_id)
       THEN /\ resp' = Response(NextRid, "register", "find", 400,
                           AlreadyExistsDetail, patient_id, 0)
            /\ UNCHANGED <<inflight, started>>
       ELSE /\ started' = NextRid
            /\ inflight' = inflight \cup
                  {Req(NextRid, "register", "insert", patient_id, 0, name,
                       <<>>, Clock(NextRid), 0, <<>>)}
            /\ resp' = NoResponse
    /\ UNCHANGED <<gen, patients, fs, issued>>

\* insert_one(new_patient) and the 200 response
RegisterInsert(r) ==
    /\ r.op = "register" /\ r.pc = "insert"
    /\ patients' = insert_one(NewPatient(r.rid, r.pid, r.name, r.t))
    /\ inflight' = inflight \ {r}
    /\ resp' = Response(r.rid, "register", "insert", 200, NoDetail, r.pid, 0)
    /\ UNCHANGED <<gen, fs, started, issued>>

----------------------------------------------------------------------------
(* update_patient *)

NameInputs == {"n2", NoName}

\* the "$set" of update_patient: the fields given and last_updated
SetFields(doc, name, t) ==
    [doc EXCEPT !.name = IF name = NoName THEN @ ELSE name, !.last_updated = t]

UpdateFind(raw, name) ==
    /\ gen = "V2"
    /\ LET pid == sanitize_patient_id(raw)
       IN  IF get_patient(pid) = 0
           THEN /\ resp' = Response(NextRid, "update", "find", 404,
                               PatientNotFoundDetail, pid, 0)
                /\ UNCHANGED <<inflight, started>>
           ELSE /\ started' = NextRid
                /\ inflight' = inflight \cup
                      {Req(NextRid, "update", "set", pid, 0, name, <<>>,
                           Clock(NextRid), 0, <<>>)}
                /\ resp' = NoResponse
    /\ UNCHANGED <<gen, patients, fs, issued>>

UpdateApply(r) ==
    /\ r.op = "update" /\ r.pc = "set"
    /\ patients' = update_one(r.pid, SetFields(Matched(r.pid), r.name, r.t))
    /\ inflight' = inflight \ {r}
    /\ resp' = Response(r.rid, "update", "set", 200, NoDetail, r.pid, 0)
    /\ UNCHANGED <<gen, fs, started, issued>>

----------------------------------------------------------------------------
(* upload_individual_files, upload_zip_file, handle_scan_upload *)

ModalitySet == {"t1c", "t1n", "t2f", "t2w"}

\* file names as token sequences, so that endswith is computed
NII == <<".nii">>
NIIGZ == <<".nii", ".gz">>
ZIP == <<".zip">>

EndsWith(f, suffix) ==
    /\ Len(f) >= Len(suffix)
    /\ SubSeq(f, Len(f) - Len(suffix) + 1, Len(f)) = suffix

\* any(file.filename.endswith(ext) for ext in valid_extensions)
ValidExtension(f) == EndsWith(f, NII) \/ EndsWith(f, NIIGZ)

\* '.nii.gz' if file.filename.endswith('.nii.gz') else '.nii'
file_extension(f) == IF EndsWith(f, NIIGZ) THEN ".nii.gz" ELSE ".nii"

\* the four files of a multipart upload
FileInputs ==
    {[m \in ModalitySet |-> <<"vol", ".nii", ".gz">>],
     [m \in ModalitySet |-> <<"vol", ".nii">>],
     [m \in ModalitySet |->
         IF m = "t2f" THEN <<"vol", ".txt">> ELSE <<"vol", ".nii", ".gz">>]}

\* the modalities whose uploaded file has no bytes
NoEmpty == {}
EmptyInputs == {NoEmpty, {"t1c"}}

RequiredFiles == {"t1c.nii.gz", "t1n.nii.gz", "t2f.nii.gz", "t2w.nii.gz"}

\* archives: the uploaded file's name and the names of its entries
ZipInputs ==
    {[filename |-> <<"scan", ".zip">>, entries |-> RequiredFiles],
     [filename |-> <<"scan", ".zip">>, entries |-> RequiredFiles \ {"t2w.nii.gz"}],
     [filename |-> <<"scan", ".zip">>, entries |-> RequiredFiles \cup {"notes.txt"}],
     [filename |-> <<"scan", ".tar">>, entries |-> RequiredFiles]}

\* some enumeration of a set of words (', '.join over a Python set)
RECURSIVE SeqOfSet(_)
SeqOfSet(S) ==
    IF S = {} THEN <<>>
    ELSE LET x == CHOOSE y \in S : TRUE IN <<x>> \o SeqOfSet(S \ {x})

MissingDetail(missing) ==
    <<"Missing", "required", "files", "in", "zip:">> \o SeqOfSet(missing)

\* validate_zip_structure: the required entries the archive lacks
MissingEntries(entries) == RequiredFiles \ entries

\* the file_paths dict of upload_zip_file
ZipFilePaths(pid) == [m \in ModalitySet |-> UploadPath(pid, m \o ".nii.gz")]

\* the file_paths dict of upload_individual_files
UploadFilePaths(pid, files) ==
    [m \in ModalitySet |-> UploadPath(pid, m \o file_extension(files[m]))]

\* "$push" of the scan and "$set" of last_updated in handle_scan_upload
PushScan(doc, scan, t) ==
    [doc EXCEPT !.scans = Push(@, scan), !.last_updated = t]

\* upload_individual_files up to the find_one of handle_scan_upload
UploadFilesStart(raw, files, empty) ==
    /\ gen = "V2"
    /\ LET pid == sanitize_patient_id(raw)
           made == MakeDirs(fs, {PatientDir(UPLOAD_DIR, pid)})
           file_paths == UploadFilePaths(pid, files)
       IN  IF \E m \in ModalitySet : ~ValidExtension(files[m])
           THEN /\ fs' = made
                /\ resp' = Response(NextRid, "upload_files", "start", 400,
                               InvalidFormatDetail, pid, 0)
                /\ UNCHANGED <<inflight, started>>
           ELSE /\ fs' = WriteAll(WriteAll(made,
                                      {file_paths[m] : m \in ModalitySet},
                                      NextRid),
                                  {file_paths[m] : m \in empty}, EmptyData)
                /\ started' = NextRid
                /\ inflight' = inflight \cup
                      {Req(NextRid, "upload_files", "find", pid,
                           uuid4(NextRid), NoName, <<file_paths>>,
                           Clock(NextRid), 0,
                           <<>>)}
                /\ resp' = NoResponse
    /\ UNCHANGED <<gen, patients, issued>>

\* upload_zip_file up to the find_one of handle_scan_upload
UploadZipStart(raw, z) ==
    /\ gen = "V2"
    /\ LET pid == sanitize_patient_id(raw)
           made == MakeDirs(fs, {PatientDir(UPLOAD_DIR, pid)})
       IN  IF ~EndsWith(z.filename, ZIP)
           THEN /\ resp' = Response(NextRid, "upload_zip", "start", 400,
                               InvalidZipTypeDetail, pid, 0)
                /\ UNCHANGED <<fs, inflight, started>>
           ELSE IF MissingEntries(z.entries) # {}
           THEN /\ fs' = made
                /\ resp' = Response(NextRid, "upload_zip", "start", 400,
                               MissingDetail(MissingEntries(z.entries)), pid, 0)
                /\ UNCHANGED <<inflight, started>>
           ELSE /\ fs' = WriteAll(made, {UploadPath(pid, e) : e \in z.entries},
                                  NextRid)
                /\ started' = NextRid
                /\ inflight' = inflight \cup
                      {Req(NextRid, "upload_zip", "find", pid,
                           uuid4(NextRid), NoName, <<ZipFilePaths(pid)>>,
                           Clock(NextRid), 0, <<>>)}
                /\ resp' = NoResponse
    /\ UNCHANGED <<gen, patients, issued>>

UploadOps == {"upload_files", "upload_zip"}

\* handle_scan_upload: get_patient, the 404, and the arguments of update_one
UploadFind(r) ==
    /\ gen = "V2"
    /\ r.op \in UploadOps /\ r.pc = "find"
    /\ IF get_patient(r.pid) = 0
       THEN /\ inflight' = inflight \ {r}
            /\ resp' = Response(r.rid, r.op, "find", 404, RegisterFirstDetail,
                           r.pid, 0)
       ELSE /\ inflight' = (inflight \ {r}) \cup
                               {[r EXCEPT !.pc = "push", !.t2 = Clock(started)]}
            /\ resp' = NoResponse
    /\ UNCHANGED <<gen, patients, fs, started, issued>>

\* handle_scan_upload: update_one and the return of scan_id
UploadPush(r) ==
    /\ gen = "V2"
    /\ r.op \in UploadOps /\ r.pc = "push"
    /\ patients' = update_one(r.pid,
                      PushScan(Matched(r.pid), Scan(r.sid, r.files[1], r.t), r.t2))
    /\ inflight' = inflight \ {r}
    /\ resp' = Response(r.rid, r.op, "push", 200, NoDetail, r.pid, r.sid)
    /\ issued' = issued \cup {<<r.pid, r.sid>>}
    /\ UNCHANGED <<gen, fs, started>>

----------------------------------------------------------------------------
(* segment_scan *)

\* HTTPException(404) raised inside the try block of segment_scan is caught
\* by its "except Exception" and answered as a 500
SegmentNotFound(detail) ==
    [status |-> 500, detail |-> InternalErrorDetail(StrHTTP404(detail))]

\* a handler that swallows the exception and answers 200
SegmentFailureSwallowed(cause) ==
    [status |-> 200, detail |-> InternalErrorDetail(<<cause>>)]

\* an exception of run_inference, save_slice_images or save_segmentation_mask
SegmentFailure(cause) ==
    [status |-> 500, detail |-> InternalErrorDetail(<<cause>>)]

\* scan ids a client may ask for: those of the stored scans, and another one
BogusScan == 0
SidInputs ==
    IF gen = "V2"
    THEN UNION {ScanIds(patients[i]) : i \in 1..Len(patients)} \cup {BogusScan}
    ELSE {}

\* scan_files of segment_scan
ScanFiles(scan) ==
    [t1c |-> scan.t1c, t1n |-> scan.t1n, t2f |-> scan.t2f, t2w |-> scan.t2w]

\* get_patient and the scan lookup
SegmentLookup(raw, scan_id) ==
    /\ gen = "V2"
    /\ LET pid == sanitize_patient_id(raw)
           k == get_patient(pid)
           j == IF k = 0 THEN 0 ELSE FindScan(patients[k], scan_id)
       IN  IF k = 0
           THEN /\ resp' = Response(NextRid, "segment", "lookup",
                               SegmentNotFound(PatientNotFoundDetail).status,
                               SegmentNotFound(PatientNotFoundDetail).detail,
                               pid, scan_id)
                /\ UNCHANGED <<inflight, started>>
           ELSE IF j = 0
           THEN /\ resp' = Response(NextRid, "segment", "lookup",
                               SegmentNotFound(ScanNotFoundDetail).status,
                               SegmentNotFound(ScanNotFoundDetail).detail,
                               pid, scan_id)
                /\ UNCHANGED <<inflight, started>>
           ELSE /\ started' = NextRid
                /\ inflight' = inflight \cup
                      {Req(NextRid, "segment", "run", pid, scan_id, NoName,
                           <<ScanFiles(patients[k].scans[j])>>, 0, 0, <<>>)}
                /\ resp' = NoResponse
    /\ UNCHANGED <<gen, patients, fs, issued>>

\* the files save_slice_images writes, in the order it writes them
SliceFiles(pid, sid) ==
    [n \in 1..(2 * NumSlices) |->
        IF n % 2 = 1 THEN SlicePath(pid, sid, (n - 1) \div 2)
        ELSE OverlayPath(pid, sid, (n - 2) \div 2)]

\* an overlay list that leaves out the last slice
OverlaySlicePathsShort(pid, sid) ==
    [i \in 1..(NumSlices - 1) |-> OverlayPath(pid, sid, i - 1)]

\* mri_slice_paths and overlay_slice_paths returned by save_slice_images
MriSlicePaths(pid, sid) == [i \in 1..NumSlices |-> SlicePath(pid, sid, i - 1)]
OverlaySlicePaths(pid, sid) ==
    [i \in 1..NumSlices |-> OverlayPath(pid, sid, i - 1)]

\* save_slice_images stopped by an exception after n files (n = all: complete)
SaveSlices(f, pid, sid, n, d) ==
    WriteAll(MakeDirs(f, {PatientDir(OUTPUT_DIR, pid), ScanOutDir(pid, sid)}),
             {SliceFiles(pid, sid)[i] : i \in 1..n}, d)

\* save_segmentation_mask
SaveMask(f, pid, sid, d) ==
    WriteFile(MakeDirs(f, {PatientDir(UPLOAD_DIR, pid)}), MaskPath(pid, sid), d)

\* a result whose identifier is derived from the scan instead of drawn fresh
SegmentationResultPerScan(rid, pid, sid, t) ==
    [scan_id |-> sid, result_id |-> sid, mask_path |-> MaskPath(pid, sid),
     mri_slice_paths |->
        [i \in 1..NumSlices |-> to_static_url(MriSlicePaths(pid, sid)[i])],
     overlay_slice_paths |->
        [i \in 1..NumSlices |-> to_static_url(OverlaySlicePaths(pid, sid)[i])],
     processing_timestamp |-> t]

\* segmentation_result of segment_scan
SegmentationResult(rid, pid, sid, t) ==
    [scan_id |-> sid, result_id |-> uuid4(rid), mask_path |-> MaskPath(pid, sid),
     mri_slice_paths |->
        [i \in 1..Len(MriSlicePaths(pid, sid)) |->
            to_static_url(MriSlicePaths(pid, sid)[i])],
     overlay_slice_paths |->
        [i \in 1..Len(OverlaySlicePaths(pid, sid)) |->
            to_static_url(OverlaySlicePaths(pid, sid)[i])],
     processing_timestamp |-> t]

\* V1: segmentation_result of segment_scan
SegmentationResultV1(pid, sid) ==
    [scan_id |-> sid, mask_path |-> MaskPath(pid, sid),
     mri_slice_paths |-> MriSlicePaths(pid, sid),
     overlay_slice_paths |-> OverlaySlicePaths(pid, sid)]

\* V1 answers every exception of segment_scan with the same detail
SegmentFailureV1 == [status |-> 500, detail |-> InternalErrorDetailV1]

Failure(cause) == IF gen = "V2" THEN SegmentFailure(cause) ELSE SegmentFailureV1

Outcomes == {"inference", "slices", "mask", "ok"}

\* run_inference reads the four volumes of the scan
Readable(files) ==
    \A m \in ModalitySet : Exists(fs, files[m]) /\ fs[files[m]] # EmptyData

\* a request that stays before its artifact block after the block succeeded
SegmentPendingAgain(r, result) ==
    [r EXCEPT !.pc = "run", !.res = <<result>>, !.t2 = Clock(started)]

\* the pending request after the artifact block succeeded
SegmentPending(r, result) ==
    [r EXCEPT !.pc = "append", !.res = <<result>>, !.t2 = Clock(started)]

\* run_inference, save_slice_images, save_segmentation_mask and the
\* construction of segmentation_result: one blocking stretch of the handler,
\* which an exception may leave at any of its calls
SegmentRun(r, outcome, n) ==
    /\ r.op = "segment" /\ r.pc = "run"
    /\ outcome \in Outcomes
    /\ ~Readable(r.files[1]) => outcome = "inference"
    /\ outcome = "slices" <=> n < 2 * NumSlices
    /\ LET d == IF Readable(r.files[1]) THEN fs[r.files[1].t1c] ELSE 0
           sliced == SaveSlices(fs, r.pid, r.sid, n, d)
       IN  CASE outcome = "inference" ->
                  /\ fs' = fs
                  /\ inflight' = inflight \ {r}
                  /\ resp' = Response(r.rid, "segment", "run",
                                 Failure(outcome).status,
                                 Failure(outcome).detail, r.pid, r.sid)
              [] outcome = "slices" ->
                  /\ fs' = sliced
                  /\ inflight' = inflight \ {r}
                  /\ resp' = Response(r.rid, "segment", "run",
                                 Failure(outcome).status,
                                 Failure(outcome).detail, r.pid, r.sid)
              [] outcome = "mask" ->
                  /\ fs' = MakeDirs(sliced, {PatientDir(UPLOAD_DIR, r.pid)})
                  /\ inflight' = inflight \ {r}
                  /\ resp' = Response(r.rid, "segment", "run",
                                 Failure(outcome).status,
                                 Failure(outcome).detail, r.pid, r.sid)
              [] outcome = "ok" ->
                  /\ fs' = SaveMask(sliced, r.pid, r.sid, d)
                  /\ inflight' = (inflight \ {r}) \cup
                        {SegmentPending(r,
                            IF gen = "V2"
                            THEN SegmentationResult(r.rid, r.pid, r.sid,
                                                    Clock(started))
                            ELSE SegmentationResultV1(r.pid, r.sid))}
                  /\ resp' = NoResponse
    /\ UNCHANGED <<gen, patients, started, issued>>

\* a "$set" of the result array instead of the "$push"
PushResultOverwrite(doc, result, t) ==
    [doc EXCEPT !.segmentation_results = <<result>>, !.last_updated = t]

\* "$push" of the result and "$set" of last_updated in segment_scan
PushResult(doc, result, t) ==
    [doc EXCEPT !.segmentation_results = Push(@, result), !.last_updated = t]

\* update_one and the 200 response
SegmentAppend(r) ==
    /\ gen = "V2"
    /\ r.op = "segment" /\ r.pc = "append"
    /\ patients' = update_one(r.pid, PushResult(Matched(r.pid), r.res[1], r.t2))
    /\ inflight' = inflight \ {r}
    /\ resp' = Response(r.rid, "segment", "append", 200, NoDetail, r.pid, r.sid)
    /\ UNCHANGED <<gen, fs, started, issued>>

----------------------------------------------------------------------------
(* delete_patient *)

\* get_patient, the 404, and the two rmtree calls
DeleteFind(raw) ==
    /\ gen = "V2"
    /\ LET pid == sanitize_patient_id(raw)
       IN  IF get_patient(pid) = 0
           THEN /\ resp' = Response(NextRid, "delete", "find", 404,
                               PatientNotFoundDetail, pid, 0)
                /\ UNCHANGED <<inflight, fs, started>>
           ELSE /\ fs' = RmTree(RmTree(fs, UPLOAD_DIR, pid), OUTPUT_DIR, pid)
                /\ started' = NextRid
                /\ inflight' = inflight \cup
                      {Req(NextRid, "delete", "delete", pid, 0, NoName, <<>>,
                           0, 0, <<>>)}
                /\ resp' = NoResponse
    /\ UNCHANGED <<gen, patients, issued>>

\* delete_one and the 200 response
DeleteApply(r) ==
    /\ r.op = "delete" /\ r.pc = "delete"
    /\ patients' = delete_one(r.pid)
    /\ inflight' = inflight \ {r}
    /\ resp' = Response(r.rid, "delete", "delete", 200, NoDetail, r.pid, 0)
    /\ UNCHANGED <<gen, fs, started, issued>>

----------------------------------------------------------------------------
(* get_patient_data *)

\* GET /patients/{patient_id}: what the read accessor answers in the current
\* state; the body is the document found, if any
get_patient_data(patient_id) ==
    LET pid == sanitize_patient_id(patient_id)
        k == get_patient(pid)
    IN  IF k = 0
        THEN [status |-> 404, detail |-> PatientNotFoundDetail, body |-> <<>>]
        ELSE [status |-> 200, detail |-> NoDetail, body |-> <<patients[k]>>]

----------------------------------------------------------------------------
(* download_report, generate_pdf_report *)

ResultNotFoundDetail == <<"Segmentation", "result", "not", "found">>

MaskNotFoundDetail == <<"Mask", "file", "not", "found">>
NoEmailDetail == <<"No", "email", "address", "provided">>
EmailFailedDetail == <<"Failed", "to", "send", "email">>

\* a loop over segmentation_results that keeps the last result of the scan
LastResult(doc, scan_id) ==
    LET m == {i \in 1..Len(doc.segmentation_results) :
                 doc.segmentation_results[i].scan_id = scan_id}
    IN  IF m = {} THEN 0 ELSE CHOOSE i \in m : \A j \in m : j <= i

\* the loop "for result in segmentation_results: if result['scan_id'] ==
\* scan_id: break": the index of the first result of the scan, 0 if none
FirstResult(doc, scan_id) ==
    LET m == {i \in 1..Len(doc.segmentation_results) :
                 doc.segmentation_results[i].scan_id = scan_id}
    IN  IF m = {} THEN 0 ELSE Min(m)

\* generate_pdf_report: the report of a result is written (again) at the
\* path made of the document's patient_id and the scan id; its content is
\* that of the result
generate_pdf_report(f, patient, scan_id, result) ==
    WriteFile(f, ReportPath(patient.patient_id, scan_id), result.result_id)

\* download_report: the handler has one await, the find_one it starts with
DownloadReport(raw, scan_id) ==
    /\ gen = "V2"
    /\ LET pid == sanitize_patient_id(raw)
           k == get_patient(pid)
           j == IF k = 0 THEN 0 ELSE FirstResult(patients[k], scan_id)
       IN  IF k = 0
           THEN /\ resp' = Response(NextRid, "report", "find", 404,
                               PatientNotFoundDetail, pid, scan_id)
                /\ fs' = fs
           ELSE IF j = 0
           THEN /\ resp' = Response(NextRid, "report", "find", 404,
                               ResultNotFoundDetail, pid, scan_id)
                /\ fs' = fs
           ELSE /\ fs' = generate_pdf_report(fs, patients[k], scan_id,
                               patients[k].segmentation_results[j])
                /\ resp' = Response(NextRid, "report", "find", 200, NoDetail,
                               pid, scan_id)
    /\ UNCHANGED <<gen, patients, inflight, started, issued>>

----------------------------------------------------------------------------
(* download_segmentation_mask, email_results *)

\* FileResponse(path, ...): a success that serves the file at path
FileResponse(rid, op, pid, sid, path) ==
    [rid |-> rid, op |-> op, at |-> "find", status |-> 200, detail |-> NoDetail,
     pid |-> pid, sid |-> sid, file |-> path]

\* download_segmentation_mask: the handler has one await, its find_one
DownloadMask(raw, scan_id) ==
    /\ gen = "V2"
    /\ LET pid == sanitize_patient_id(raw)
           k == get_patient(pid)
           j == IF k = 0 THEN 0 ELSE FirstResult(patients[k], scan_id)
           mask_path == patients[k].segmentation_results[j].mask_path
       IN  resp' = IF k = 0
                   THEN Response(NextRid, "mask", "find", 404,
                            PatientNotFoundDetail, pid, scan_id)
                   ELSE IF j = 0
                   THEN Response(NextRid, "mask", "find", 404,
                            ResultNotFoundDetail, pid, scan_id)
                   ELSE IF ~Exists(fs, mask_path)
                   THEN Response(NextRid, "mask", "find", 404,
                            MaskNotFoundDetail, pid, scan_id)
                   ELSE FileResponse(NextRid, "mask", pid, scan_id, mask_path)
    /\ UNCHANGED <<gen, patients, fs, inflight, started, issued>>

\* the message handed to send_email: the "Scan Date" line of the body is the
\* processing_timestamp of the result, the attachments are the files named
\* that exist when the message is built
EmailSent(rid, pid, sid, result, attachments) ==
    [rid |-> rid, op |-> "email", at |-> "send", status |-> 200,
     detail |-> NoDetail, pid |-> pid, sid |-> sid,
     scan_date |-> result.processing_timestamp, attachments |-> attachments]

\* email_results with one request running at a time: recipient tells whether
\* the request names a recipient (the documents of the model carry no email
\* of their own), delivered is what send_email returns
EmailResults(raw, scan_id, recipient, include_mask, include_report, delivered) ==
    /\ gen = "V2"
    /\ LET pid == sanitize_patient_id(raw)
           k == get_patient(pid)
           j == IF k = 0 THEN 0 ELSE FirstResult(patients[k], scan_id)
           result == patients[k].segmentation_results[j]
           masks == IF include_mask /\ Exists(fs, result.mask_path)
                    THEN {result.mask_path} ELSE {}
           reports == IF include_report
                      THEN {ReportPath(patients[k].patient_id, scan_id)}
                      ELSE {}
       IN  IF k = 0
           THEN /\ resp' = Response(NextRid, "email", "find", 404,
                               PatientNotFoundDetail, pid, scan_id)
                /\ fs' = fs
           ELSE IF ~recipient
           THEN /\ resp' = Response(NextRid, "email", "find", 400,
                               NoEmailDetail, pid, scan_id)
                /\ fs' = fs
           ELSE IF j = 0
           THEN /\ resp' = Response(NextRid, "email", "find", 404,
                               ResultNotFoundDetail, pid, scan_id)
                /\ fs' = fs
           ELSE /\ fs' = IF include_report
                         THEN generate_pdf_report(fs, patients[k], scan_id,
                                                  result)
                         ELSE fs
                /\ resp' = IF delivered
                           THEN EmailSent(NextRid, pid, scan_id, result,
                                          masks \cup reports)
                           ELSE Response(NextRid, "email", "send", 500,
                                    EmailFailedDetail, pid, scan_id)
    /\ UNCHANGED <<gen, patients, inflight, started, issued>>

----------------------------------------------------------------------------
(* The V1 backend: src/V1/backend/main.py *)

\* V1: Scan(**file_paths)
ScanV1(file_paths) ==
    [t1c |-> file_paths.t1c, t1n |-> file_paths.t1n,
     t2f |-> file_paths.t2f, t2w |-> file_paths.t2w]

\* V1: new_patient of handle_scan_upload
NewPatientV1(rid, patient_id, scan) ==
    [id |-> uuid4(rid), patient_id |-> patient_id, scans |-> <<scan>>,
     segmentation_results |-> <<>>]

\* V1: upload_individual_files up to the find_one of handle_scan_upload
V1UploadFilesStart(raw) ==
    /\ gen = "V1"
    /\ LET pid == sanitize_patient_id(raw)
           made == MakeDirs(fs, {PatientDir(UPLOAD_DIR, pid)})
       IN  /\ fs' = WriteAll(made, {ZipFilePaths(pid)[m] : m \in ModalitySet},
                             NextRid)
           /\ started' = NextRid
           /\ inflight' = inflight \cup
                 {Req(NextRid, "upload_files", "find", pid, 0, NoName,
                      <<ZipFilePaths(pid)>>, 0, 0, <<>>)}
           /\ resp' = NoResponse
    /\ UNCHANGED <<gen, patients, issued>>

\* V1: upload_zip_file up to the find_one of handle_scan_upload
V1UploadZipStart(raw, z) ==
    /\ gen = "V1"
    /\ LET pid == sanitize_patient_id(raw)
           made == MakeDirs(fs, {PatientDir(UPLOAD_DIR, pid)})
       IN  IF ~EndsWith(z.filename, ZIP)
           THEN /\ resp' = Response(NextRid, "upload_zip", "start", 400,
                                    InvalidZipTypeDetail, pid, 0)
                /\ UNCHANGED <<fs, inflight, started>>
           ELSE /\ fs' = WriteAll(made, {UploadPath(pid, e) : e \in z.entries},
                                  NextRid)
                /\ started' = NextRid
                /\ inflight' = inflight \cup
                      {Req(NextRid, "upload_zip", "find", pid, 0, NoName,
                           <<ZipFilePaths(pid)>>, 0, 0, <<>>)}
                /\ resp' = NoResponse
    /\ UNCHANGED <<gen, patients, issued>>

\* V1: get_patient of handle_scan_upload and the choice between insert and push;
\* in the push branch scan_id is len(patient["scans"]) of the document read here
V1UploadFind(r) ==
    /\ gen = "V1"
    /\ r.op \in UploadOps /\ r.pc = "find"
    /\ LET k == get_patient(r.pid)
       IN  inflight' = (inflight \ {r}) \cup
              {IF k = 0 THEN [r EXCEPT !.pc = "insert", !.sid = 0]
               ELSE [r EXCEPT !.pc = "push", !.sid = Len(patients[k].scans)]}
    /\ resp' = NoResponse
    /\ UNCHANGED <<gen, patients, fs, started, issued>>

\* V1: insert_one(new_patient), scan_id = 0
V1UploadInsert(r) ==
    /\ gen = "V1"
    /\ r.op \in UploadOps /\ r.pc = "insert"
    /\ patients' = insert_one(NewPatientV1(r.rid, r.pid, ScanV1(r.files[1])))
    /\ inflight' = inflight \ {r}
    /\ resp' = Response(r.rid, r.op, "insert", 200, NoDetail, r.pid, r.sid)
    /\ issued' = issued \cup {<<r.pid, r.sid>>}
    /\ UNCHANGED <<gen, fs, started>>

\* V1: "$push" of the scan
PushScanV1(doc, scan) == [doc EXCEPT !.scans = Push(@, scan)]

\* V1: update_one and the return of scan_id
V1UploadPush(r) ==
    /\ gen = "V1"
    /\ r.op \in UploadOps /\ r.pc = "push"
    /\ patients' = update_one(r.pid, PushScanV1(Matched(r.pid), ScanV1(r.files[1])))
    /\ inflight' = inflight \ {r}
    /\ resp' = Response(r.rid, r.op, "push", 200, NoDetail, r.pid, r.sid)
    /\ issued' = issued \cup {<<r.pid, r.sid>>}
    /\ UNCHANGED <<gen, fs, started>>

\* V1: scan indexes a client may ask for
SidInputsV1 == (-2)..MaxOps

\* V1: HTTPException(404) and IndexError alike are caught by "except Exception"
\* V1: patient["scans"][scan_id], with Python's negative indexes
PyIndex(len, i) == IF i >= 0 THEN i + 1 ELSE len + i + 1

\* V1: get_patient and the scan lookup by index
V1SegmentLookup(raw, scan_id) ==
    /\ gen = "V1"
    /\ LET pid == sanitize_patient_id(raw)
           k == get_patient(pid)
           len == IF k = 0 THEN 0 ELSE Len(patients[k].scans)
       IN  IF k = 0 \/ scan_id >= len \/ PyIndex(len, scan_id) < 1
           THEN /\ resp' = Response(NextRid, "segment", "lookup",
                                    SegmentFailureV1.status,
                                    SegmentFailureV1.detail, pid, scan_id)
                /\ UNCHANGED <<inflight, started>>
           ELSE /\ started' = NextRid
                /\ inflight' = inflight \cup
                      {Req(NextRid, "segment", "run", pid, scan_id, NoName,
                           <<patients[k].scans[PyIndex(len, scan_id)]>>,
                           0, 0, <<>>)}
                /\ resp' = NoResponse
    /\ UNCHANGED <<gen, patients, fs, issued>>

\* V1: "$push" of the result
PushResultV1(doc, result) ==
    [doc EXCEPT !.segmentation_results = Push(@, result)]

\* V1: update_one and the 200 response
V1SegmentAppend(r) ==
    /\ gen = "V1"
    /\ r.op = "segment" /\ r.pc = "append"
    /\ patients' = update_one(r.pid, PushResultV1(Matched(r.pid), r.res[1]))
    /\ inflight' = inflight \ {r}
    /\ resp' = Response(r.rid, "segment", "append", 200, NoDetail, r.pid, r.sid)
    /\ UNCHANGED <<gen, fs, started, issued>>

----------------------------------------------------------------------------
(* The system *)

\* requests of the current backend
NextV2(limit) ==
    \/ Admit(limit) /\ \E p \in RawIds, n \in Names : RegisterFind(p, n)
    \/ \E r \in inflight : RegisterInsert(r)
    \/ Admit(limit) /\ \E p \in RawIds, n \in NameInputs : UpdateFind(p, n)
    \/ \E r \in inflight : UpdateApply(r)
    \/ Admit(limit) /\ \E p \in RawIds, f \in FileInputs :
                            UploadFilesStart(p, f, NoEmpty)
    \/ Admit(limit) /\ \E p \in RawIds, z \in ZipInputs : UploadZipStart(p, z)
    \/ \E r \in inflight : UploadFind(r)
    \/ \E r \in inflight : UploadPush(r)
    \/ Admit(limit) /\ \E p \in RawIds, s \in SidInputs : SegmentLookup(p, s)
    \/ \E r \in inflight, o \in Outcomes, n \in 0..(2 * NumSlices) :
          SegmentRun(r, o, n)
    \/ \E r \in inflight : SegmentAppend(r)
    \/ Admit(limit) /\ \E p \in RawIds : DeleteFind(p)
    \/ \E r \in inflight : DeleteApply(r)

\* requests of the V1 backend
NextV1(limit) ==
    \/ Admit(limit) /\ \E p \in RawIds : V1UploadFilesStart(p)
    \/ Admit(limit) /\ \E p \in RawIds, z \in ZipInputs : V1UploadZipStart(p, z)
    \/ \E r \in inflight : V1UploadFind(r)
    \/ \E r \in inflight : V1UploadInsert(r)
    \/ \E r \in inflight : V1UploadPush(r)
    \/ Admit(limit) /\ \E p \in RawIds, s \in SidInputsV1 : V1SegmentLookup(p, s)
    \/ \E r \in inflight, o \in Outcomes, n \in 0..(2 * NumSlices) :
          SegmentRun(r, o, n)
    \/ \E r \in inflight : V1SegmentAppend(r)

Next ==
    \/ gen = "V2" /\ NextV2(MaxOps)
    \/ gen = "V1" /\ NextV1(MaxOps)

Spec == Init /\ [][Next]_vars

\* The current backend with well-formed multipart uploads and an inference
\* that succeeds, for one more request than Spec admits: the behaviours in
\* which a patient is deleted and registered again around a segmentation.
RaceId == <<"a">>
RaceFiles == [m \in ModalitySet |-> <<"vol", ".nii", ".gz">>]

InitRace == Init /\ gen = "V2"

NextRace ==
    \/ Admit(MaxOps + 1) /\ \E n \in Names : RegisterFind(RaceId, n)
    \/ \E r \in inflight : RegisterInsert(r)
    \/ Admit(MaxOps + 1) /\ UploadFilesStart(RaceId, RaceFiles, NoEmpty)
    \/ \E r \in inflight : UploadFind(r)
    \/ \E r \in inflight : UploadPush(r)
    \/ Admit(MaxOps + 1) /\ \E s \in SidInputs : SegmentLookup(RaceId, s)
    \/ \E r \in inflight : SegmentRun(r, "ok", 2 * NumSlices)
    \/ \E r \in inflight : SegmentAppend(r)
    \/ Admit(MaxOps + 1) /\ DeleteFind(RaceId)
    \/ \E r \in inflight : DeleteApply(r)

SpecRace == InitRace /\ [][NextRace]_vars

\* The current backend serving one request at a time: a request is received
\* only when no other one is in flight.
AdmitAlone(limit) == started < limit /\ inflight = {}

NextSeq ==
    \/ AdmitAlone(MaxOps + 1) /\ \E p \in RawIds, n \in Names : RegisterFind(p, n)
    \/ \E r \in inflight : RegisterInsert(r)
    \/ AdmitAlone(MaxOps + 1) /\
          \E p \in RawIds, f \in FileInputs, e \in EmptyInputs :
              UploadFilesStart(p, f, e)
    \/ \E r \in inflight : UploadFind(r)
    \/ \E r \in inflight : UploadPush(r)
    \/ AdmitAlone(MaxOps + 1) /\
          \E p \in RawIds, s \in SidInputs : SegmentLookup(p, s)
    \/ \E r \in inflight, o \in Outcomes, n \in 0..(2 * NumSlices) :
          SegmentRun(r, o, n)
    \/ \E r \in inflight : SegmentAppend(r)
    \/ AdmitAlone(MaxOps + 1) /\
          \E p \in RawIds, s \in SidInputs : DownloadReport(p, s)
    \/ AdmitAlone(MaxOps + 1) /\
          \E p \in RawIds, s \in SidInputs : DownloadMask(p, s)
    \/ AdmitAlone(MaxOps + 1) /\
          \E p \in RawIds, s \in SidInputs, to \in BOOLEAN, m \in BOOLEAN,
             rep \in BOOLEAN, ok \in BOOLEAN :
              EmailResults(p, s, to, m, rep, ok)
    \/ AdmitAlone(MaxOps + 1) /\ \E p \in RawIds : DeleteFind(p)
    \/ \E r \in inflight : DeleteApply(r)

SpecSeq == InitRace /\ [][NextSeq]_vars

\* The current backend with an event loop that resumes every suspended
\* handler: an awaited database call completes and the coroutine waiting for
\* it is run again.
Resume ==
    \E r \in inflight :
        \/ RegisterInsert(r)
        \/ UploadFind(r)
        \/ UploadPush(r)
        \/ \E o \in Outcomes, n \in 0..(2 * NumSlices) : SegmentRun(r, o, n)
        \/ SegmentAppend(r)
        \/ DeleteApply(r)

NextLive ==
    \/ Admit(MaxOps) /\ \E n \in Names : RegisterFind(RaceId, n)
    \/ Admit(MaxOps) /\ UploadFilesStart(RaceId, RaceFiles, NoEmpty)
    \/ Admit(MaxOps) /\ \E s \in SidInputs : SegmentLookup(RaceId, s)
    \/ Admit(MaxOps) /\ DeleteFind(RaceId)
    \/ Resume

SpecLive == InitRace /\ [][NextLive]_vars /\ WF_vars(Resume)

----------------------------------------------------------------------------
(* Properties *)

Docs == {patients[i] : i \in 1..Len(patients)}

Results(doc) ==
    {doc.segmentation_results[i] : i \in 1..Len(doc.segmentation_results)}

IsPrefix(s, t) == Len(s) <= Len(t) /\ SubSeq(t, 1, Len(s)) = s

\* the requests that take a step: a request is changed or removed only by
\* its own step
Stepping == inflight \ inflight'

\* C1: a segment request for an absent patient, or for an existing patient and
\* a scan id that is not in its scan sequence, is answered 404 with detail
\* "Patient not found" / "Scan not found", and the store is unchanged.
C1_SegmentMissingIs404 ==
    [][(resp'.op = "segment" /\ resp'.at = "lookup") =>
          /\ resp'.status = 404
          /\ resp'.detail = IF get_patient(resp'.pid) = 0
                            THEN PatientNotFoundDetail ELSE ScanNotFoundDetail
          /\ patients' = patients]_vars

\* C2: no two patient documents of the store have the same patient_id.
C2_PatientIdUnique ==
    \A i, j \in 1..Len(patients) :
        i # j => patients[i].patient_id # patients[j].patient_id

\* C3: a register request that finds its patient_id in the store is answered
\* 400 with a detail containing "already exists", never goes on to insert,
\* and leaves every document of the store as it was.
C3_DuplicateRegisterRejected ==
    [][/\ \A r \in inflight' \ inflight :
             (r.op = "register" /\ r.pc = "insert") => get_patient(r.pid) = 0
       /\ (resp'.op = "register" /\ resp'.at = "find") =>
             /\ get_patient(resp'.pid) # 0
             /\ resp'.status = 400
             /\ Contains(resp'.detail, <<"already", "exists">>)
             /\ patients' = patients]_vars

\* C3 witness: a second registration of a patient that already has a scan was
\* just refused.
C3_Witness ==
    /\ resp.op = "register" /\ resp.status = 400
    /\ \E d \in Docs : d.patient_id = resp.pid /\ Len(d.scans) > 0

\* C4: every result of every patient document has its mask file and all its
\* recorded raw and overlay slice files in the artifact store.
C4_ResultArtifactsPresent ==
    \A d \in Docs : \A x \in Results(d) :
        /\ Exists(fs, x.mask_path)
        /\ \A i \in 1..Len(x.mri_slice_paths) :
              Exists(fs, UrlToFile(x.mri_slice_paths[i]))
        /\ \A i \in 1..Len(x.overlay_slice_paths) :
              Exists(fs, UrlToFile(x.overlay_slice_paths[i]))

\* C5: in the current backend every result of a patient document names the
\* scan_id of a scan of the same document.
C5_ResultNamesOwnScan ==
    gen = "V2" =>
        \A d \in Docs : \A x \in Results(d) : x.scan_id \in ScanIds(d)

\* C6: in the current backend the steps of a segmentation before its append
\* (lookup; inference, slices and mask) leave the patient collection as it
\* is, and a request that fails in them is answered 500 and never appends.
C6_OnlyAppendWrites ==
    [][gen = "V2" =>
        /\ (resp'.op = "segment" /\ resp'.at = "lookup") => patients' = patients
        /\ \A r \in inflight' \ inflight :
              (r.op = "segment" /\ r.pc = "run") => patients' = patients
        /\ \A r \in Stepping :
              (r.op = "segment" /\ r.pc = "run") =>
                 /\ patients' = patients
                 /\ \/ \E q \in inflight' : q.rid = r.rid /\ q.pc = "append"
                    \/ /\ \A q \in inflight' : q.rid # r.rid
                       /\ resp'.rid = r.rid
                       /\ resp'.status = 500]_vars

\* C6 witness: a segmentation of a patient that already has a result has
\* just failed while writing its artifacts.
C6_Witness ==
    /\ gen = "V2"
    /\ resp.op = "segment" /\ resp.at = "run" /\ resp.status = 500
    /\ \E d \in Docs : d.patient_id = resp.pid /\ Len(d.segmentation_results) > 0
    /\ Exists(fs, ScanOutDir(resp.pid, resp.sid))

HasResultId(x) == "result_id" \in DOMAIN x

\* the append step of segmentation request r keeps every result of the
\* document it writes to and adds the new one at the end
AppendKeeps(r) ==
    LET k == get_patient(r.pid)
    IN  k # 0 =>
          patients'[k].segmentation_results =
              Append(patients[k].segmentation_results, r.res[1])

C8_ScanIdNeverReturnedTwice ==
    [][(resp'.op \in UploadOps /\ resp'.status = 200) =>
          <<resp'.pid, resp'.sid>> \notin issued]_vars

C10_UploadToAbsentPatient ==
    [][\A r \in Stepping :
          (r.op \in UploadOps /\ get_patient(r.pid) = 0) =>
             /\ \A q \in inflight' : q.rid # r.rid
             /\ resp'.rid = r.rid /\ resp'.status = 404
             /\ patients' = patients
             /\ \A p \in DOMAIN fs' : fs'[p] # r.rid]_vars

\* the entry names listed in a "Missing required files in zip" detail
NamedEntries(detail) ==
    {detail[i] : i \in (Len(MissingDetail({})) + 1)..Len(detail)}

\* C11: a zip upload whose archive lacks a required entry is answered 400
\* with a detail that names exactly the missing entries, writes no entry of
\* the archive into the artifact store, and leaves no upload pending and no
\* patient document changed.
C11_IncompleteZipRejected ==
    [][\A p \in RawIds, z \in ZipInputs :
          (/\ EndsWith(z.filename, ZIP)
           /\ MissingEntries(z.entries) # {}
           /\ (UploadZipStart(p, z) \/ V1UploadZipStart(p, z))) =>
             /\ resp'.op = "upload_zip" /\ resp'.status = 400
             /\ NamedEntries(resp'.detail) = MissingEntries(z.entries)
             /\ \A e \in z.entries :
                   LET f == UploadPath(sanitize_patient_id(p), e)
                   IN  Exists(fs', f) => Exists(fs, f) /\ fs'[f] = fs[f]
             /\ inflight' = inflight
             /\ patients' = patients]_vars

\* C12: when delete_patient has answered 200 for a patient, no document
\* with its patient_id is in the store and no file or directory made for
\* that patient (uploaded volumes, masks, slice images, PDF reports) is in
\* the artifact store.
C12_DeleteRemovesEverything ==
    (resp.op = "delete" /\ resp.status = 200) =>
        /\ get_patient(resp.pid) = 0
        /\ \A f \in DOMAIN fs : f.pid # resp.pid

\* C13: an individual-files upload in which a file is empty or has a name
\* that ends neither in .nii nor in .nii.gz is answered 400, and no scan of
\* it is pending or appended.
C13_InvalidFilesRejected ==
    [][\A p \in RawIds, f \in FileInputs, e \in EmptyInputs :
          (/\ \E m \in ModalitySet : ~ValidExtension(f[m]) \/ m \in e
           /\ UploadFilesStart(p, f, e)) =>
             /\ resp'.op = "upload_files" /\ resp'.status = 400
             /\ inflight' = inflight
             /\ patients' = patients]_vars

\* C14: when register_patient has just answered 200 for a patient_id, the
\* read accessor called with that same patient_id answers 200 with the
\* document of that patient_id, whose scan and result sequences are empty.
C14_ReadAfterRegister ==
    (resp.op = "register" /\ resp.status = 200) =>
        LET got == get_patient_data(resp.pid)
        IN  /\ got.status = 200
            /\ got.body[1].patient_id = resp.pid
            /\ got.body[1].scans = <<>>
            /\ got.body[1].segmentation_results = <<>>

\* C15: in every stored result the raw and the overlay slice lists both have
\* one element per slice of the volume, and element i of each list is the
\* image of slice i of the result's scan (1-based position i, slice i - 1).
C15_SliceListsAligned ==
    \A d \in Docs : \A x \in Results(d) :
        /\ Len(x.mri_slice_paths) = NumSlices
        /\ Len(x.overlay_slice_paths) = NumSlices
        /\ \A i \in 1..NumSlices :
              /\ UrlToFile(x.mri_slice_paths[i]).name = "slice.png"
              /\ UrlToFile(x.mri_slice_paths[i]).idx = i - 1
              /\ UrlToFile(x.overlay_slice_paths[i]).name = "slice_overlay.png"
              /\ UrlToFile(x.overlay_slice_paths[i]).idx = i - 1
              /\ UrlToFile(x.mri_slice_paths[i]).sid = <<x.scan_id>>
              /\ UrlToFile(x.overlay_slice_paths[i]).sid = <<x.scan_id>>
              /\ UrlToFile(x.mri_slice_paths[i]).pid = d.patient_id
              /\ UrlToFile(x.overlay_slice_paths[i]).pid = d.patient_id

\* C15 witness: a segmentation has just been answered 200 and its result,
\* with all its slice images on disk, is in the patient document.
C15_Witness ==
    /\ resp.op = "segment" /\ resp.status = 200
    /\ \E d \in Docs : \E x \in Results(d) :
          /\ d.patient_id = resp.pid /\ x.scan_id = resp.sid
          /\ \A i \in 1..NumSlices :
                /\ Exists(fs, UrlToFile(x.mri_slice_paths[i]))
                /\ Exists(fs, UrlToFile(x.overlay_slice_paths[i]))

\* the segment requests that have been received and whose inference has not
\* started yet
AwaitingInference == {q \in inflight : q.op = "segment" /\ q.pc = "run"}

\* C16: at most one request runs its inference in a step, and the request
\* that runs it is the one that arrived first among the segment requests
\* still waiting for their inference.
C16_SingleInferenceFifo ==
    [][/\ Cardinality(AwaitingInference \ inflight') <= 1
       /\ \A r \in AwaitingInference \ inflight' :
             \A q \in AwaitingInference : r.rid <= q.rid]_vars

\* the other segment requests in flight for the patient and scan of r
ConcurrentWith(r) ==
    {q \in inflight \ {r} : q.op = "segment" /\ q.pid = r.pid /\ q.sid = r.sid}

\* C17: in the current backend, when a segmentation appends its result to
\* an existing document, the document gains exactly that result at the end
\* and keeps all it had; the result_id differs from those already stored
\* and from those of the results that concurrent segmentations of the same
\* scan are about to append, and those segmentations stay in flight.
C17_ConcurrentAppendsKept ==
    [][gen = "V2" =>
        \A r \in Stepping :
          (r.op = "segment" /\ r.pc = "append" /\ get_patient(r.pid) # 0) =>
             LET k == get_patient(r.pid)
                 old == patients[k].segmentation_results
                 new == patients'[k].segmentation_results
             IN  /\ Len(new) = Len(old) + 1
                 /\ IsPrefix(old, new)
                 /\ new[Len(new)] = r.res[1]
                 /\ \A i \in 1..Len(old) :
                       old[i].result_id # r.res[1].result_id
                 /\ \A q \in ConcurrentWith(r) :
                       /\ q \in inflight'
                       /\ q.pc = "append" =>
                             q.res[1].result_id # r.res[1].result_id]_vars

\* C17 witness: a segmentation has just appended its result while another
\* segmentation of the same scan, with its artifacts written, waits for its
\* own append.
C17_Witness ==
    /\ gen = "V2"
    /\ resp.op = "segment" /\ resp.at = "append" /\ resp.status = 200
    /\ \E d \in Docs : \E x \in Results(d) :
          d.patient_id = resp.pid /\ x.result_id = uuid4(resp.rid)
    /\ \E q \in inflight :
          /\ q.op = "segment" /\ q.pc = "append"
          /\ q.pid = resp.pid /\ q.sid = resp.sid

\* the stamps of the scans and results a document holds
ChangeStamps(doc) ==
    {doc.scans[i].upload_timestamp : i \in 1..Len(doc.scans)} \cup
    {doc.segmentation_results[i].processing_timestamp :
        i \in 1..Len(doc.segmentation_results)}

\* C18: in the current backend a step that changes a document's scans,
\* results or name also sets its last_updated, to a stamp that is not older
\* than the one it replaces nor than the stamp of any scan or result the
\* document then holds.
C18_LastUpdatedCoversChanges ==
    [][gen = "V2" =>
        \A i \in 1..Len(patients), j \in 1..Len(patients') :
           (/\ patients[i].id = patients'[j].id
            /\ \/ patients[i].scans # patients'[j].scans
               \/ patients[i].segmentation_results #
                     patients'[j].segmentation_results
               \/ patients[i].name # patients'[j].name) =>
              /\ patients'[j].last_updated >= patients[i].last_updated
              /\ \A t \in ChangeStamps(patients'[j]) :
                    t <= patients'[j].last_updated]_vars

\* the content written by the upload that created a scan of the current
\* backend: the upload is the request that drew the scan's identifier
UploadedData(scan) ==
    {n \in 1..(MaxOps + 1) : uuid4(n) = scan.scan_id} \cup {EmptyData}

\* C19: in the current backend the scans a document holds stay as they are
\* (identifier, volume references, stamp) in every step that keeps the
\* document, and every volume file a scan refers to holds the data uploaded
\* for that scan.
C19_ScanImmutable ==
    [][gen = "V2" =>
        \A i \in 1..Len(patients), j \in 1..Len(patients') :
           patients[i].id = patients'[j].id =>
              \A n \in 1..Len(patients[i].scans) :
                 /\ n <= Len(patients'[j].scans)
                 /\ patients'[j].scans[n] = patients[i].scans[n]
                 /\ \A m \in ModalitySet :
                       Exists(fs', patients[i].scans[n][m]) =>
                          fs'[patients[i].scans[n][m]] \in
                             UploadedData(patients[i].scans[n])]_vars

\* C20: after every step the patient_id of every document is its own
\* sanitize_patient_id image, and a document that stays in the store keeps
\* its patient_id.
C20_PatientIdSanitizedAndFixed ==
    [][/\ \A j \in 1..Len(patients') :
             sanitize_patient_id(patients'[j].patient_id) =
                patients'[j].patient_id
       /\ \A i \in 1..Len(patients), j \in 1..Len(patients') :
             patients[i].id = patients'[j].id =>
                patients'[j].patient_id = patients[i].patient_id]_vars

\* the exceptions the artifact block of segment_scan can end with
FailureCauses == Outcomes \ {"ok"}

\* C21: the 500 response of a segmentation that failed in inference, slice
\* rendering or mask writing is the one it would be for any other cause:
\* its detail does not depend on the exception.
C21_GenericSegmentError ==
    [][(resp'.op = "segment" /\ resp'.at = "run" /\ resp'.status = 500) =>
          \A c \in FailureCauses : resp'.detail = Failure(c).detail]_vars

\* the segment request numbered n, if it is in flight
Invocation(n) == {r \in inflight : r.rid = n /\ r.op = "segment"}

\* C22: a segmentation is in flight first after its lookup (before
\* inference), then after its artifacts and result record are made (before
\* the append), in that order only; it leaves only with a response, 500
\* from the artifact block (where a failed inference has written nothing
\* and failed slices have written no mask) or 200 from the append; once
\* answered it never is in flight again; and every segmentation in flight
\* is eventually answered.
C22_SegmentStateMachine ==
    /\ [][/\ \A r \in inflight' \ inflight :
              r.op = "segment" =>
                 \/ r.rid > started /\ r.pc = "run"
                 \/ \E q \in inflight :
                       /\ q.rid = r.rid /\ q.op = "segment"
                       /\ q.pc = "run" /\ r.pc = "append"
          /\ \A q \in Stepping :
              q.op = "segment" =>
                 \/ /\ q.pc = "run"
                    /\ \E r \in inflight' : r.rid = q.rid /\ r.pc = "append"
                 \/ /\ q.pc = "run"
                    /\ \A r \in inflight' : r.rid # q.rid
                    /\ resp'.rid = q.rid /\ resp'.status = 500
                 \/ /\ q.pc = "append"
                    /\ \A r \in inflight' : r.rid # q.rid
                    /\ resp'.rid = q.rid /\ resp'.status = 200
          /\ \A q \in inflight, n \in 0..(2 * NumSlices) :
              /\ SegmentRun(q, "inference", n) => fs' = fs
              /\ SegmentRun(q, "slices", n) =>
                    (Exists(fs', MaskPath(q.pid, q.sid)) =>
                        /\ Exists(fs, MaskPath(q.pid, q.sid))
                        /\ fs'[MaskPath(q.pid, q.sid)] =
                              fs[MaskPath(q.pid, q.sid)])]_vars
    /\ \A n \in 1..MaxOps : (Invocation(n) # {}) ~> (Invocation(n) = {})

\* C22 witness: a segmentation has gone through all its steps and was
\* answered 200, its result is in the document, and nothing is in flight.
C22_Witness ==
    /\ resp.op = "segment" /\ resp.at = "append" /\ resp.status = 200
    /\ inflight = {}
    /\ \E d \in Docs : \E x \in Results(d) : x.result_id = uuid4(resp.rid)

\* the files and directories of the store made for scan sid of patient pid
\* by save_slice_images and save_segmentation_mask
ArtifactsOf(f, pid, sid) ==
    {p \in DOMAIN f : /\ p.root \in {UPLOAD_DIR, OUTPUT_DIR}
                      /\ p.pid = pid /\ p.sid = <<sid>>}

\* what one complete run leaves for the scan: its output directory, a raw
\* and an overlay image per slice, and the mask
CompleteRun(pid, sid) ==
    {ScanOutDir(pid, sid), MaskPath(pid, sid)} \cup
    {SlicePath(pid, sid, i) : i \in 0..(NumSlices - 1)} \cup
    {OverlayPath(pid, sid, i) : i \in 0..(NumSlices - 1)}

\* C23: the artifact block of a segmentation writes only the paths of one
\* complete run of its (patient, scan); when it succeeds the scan's
\* artifacts are exactly those paths, whatever was there before, and when
\* they were complete before, the block (succeeding or failing) neither
\* adds nor removes a path.
C23_ArtifactsIdempotent ==
    [][\A r \in Stepping :
          (r.op = "segment" /\ r.pc = "run") =>
             LET before == ArtifactsOf(fs, r.pid, r.sid)
                 after == ArtifactsOf(fs', r.pid, r.sid)
             IN  /\ after \subseteq CompleteRun(r.pid, r.sid)
                 /\ before \subseteq after
                 /\ (\E q \in inflight' : q.rid = r.rid) =>
                       after = CompleteRun(r.pid, r.sid)
                 /\ before = CompleteRun(r.pid, r.sid) => after = before
                 /\ \A p \in DOMAIN fs' \ DOMAIN fs :
                       p \in after \/ p.sid = <<>>]_vars

\* C23 witness: a scan that already has a result has been segmented again
\* with success, and the store holds exactly the artifacts of one run.
C23_Witness ==
    \E r \in inflight :
        /\ r.op = "segment" /\ r.pc = "append"
        /\ \E d \in Docs : \E x \in Results(d) :
              d.patient_id = r.pid /\ x.scan_id = r.sid
        /\ ArtifactsOf(fs, r.pid, r.sid) = CompleteRun(r.pid, r.sid)

\* C24: when an upload answers success with a scan_id, or a segmentation
\* answers success with a result, the patient document of that patient_id
\* holds that scan, or that result, at the moment of the answer, also when
\* a delete_patient of the same patient runs concurrently.
C24_AnsweredIsStored ==
    gen = "V2" =>
        /\ (resp.op \in UploadOps /\ resp.status = 200) =>
              \E d \in Docs :
                  d.patient_id = resp.pid /\ resp.sid \in ScanIds(d)
        /\ (resp.op = "segment" /\ resp.status = 200) =>
              \E d \in Docs : \E x \in Results(d) :
                  /\ d.patient_id = resp.pid
                  /\ x.scan_id = resp.sid /\ x.result_id = uuid4(resp.rid)

\* C25: a mask download, a report download and an email that succeed for a
\* scan use the earliest result of that scan in the document's sequence,
\* however many later results of the same scan follow it: the mask served
\* or attached is that result's mask_path, the report written holds that
\* result, and the email body carries that result's processing timestamp.
C25_EarliestResultUsed ==
    [][(resp'.op \in {"mask", "report", "email"} /\ resp'.status = 200) =>
          LET doc == patients[get_patient(resp'.pid)]
              rs == doc.segmentation_results
              e == rs[CHOOSE i \in 1..Len(rs) :
                         /\ rs[i].scan_id = resp'.sid
                         /\ \A j \in 1..(i - 1) : rs[j].scan_id # resp'.sid]
              report == ReportPath(doc.patient_id, resp'.sid)
          IN  /\ resp'.op = "mask" => resp'.file = e.mask_path
              /\ resp'.op = "report" => fs'[report] = e.result_id
              /\ resp'.op = "email" =>
                    /\ resp'.scan_date = e.processing_timestamp
                    /\ resp'.attachments \subseteq {e.mask_path, report}
                    /\ report \in resp'.attachments =>
                          fs'[report] = e.result_id]_vars

\* C25 witness: an email with the report attached has been sent for a scan
\* that was segmented twice, and the report holds the first result, not the
\* second.
C25_Witness ==
    /\ resp.op = "email" /\ resp.status = 200
    /\ \E d \in Docs :
          /\ d.patient_id = resp.pid
          /\ Cardinality({i \in 1..Len(d.segmentation_results) :
                 d.segmentation_results[i].scan_id = resp.sid}) = 2
          /\ LET report == ReportPath(d.patient_id, resp.sid)
                 last == d.segmentation_results[LastResult(d, resp.sid)]
             IN  /\ report \in resp.attachments
                 /\ fs[report] # last.result_id
                 /\ resp.scan_date # last.processing_timestamp

\* C26: in the V1 backend, a segmentation request for a registered patient
\* whose scan_id lies outside 0..len(scans)-1, negative values included, is
\* answered 'Scan not found' at once: no inference is started for it and so
\* no result is appended.
C26_V1OutOfRangeRefused ==
    [][\A p \in RawIds, s \in SidInputsV1 :
          LET k == get_patient(sanitize_patient_id(p))
          IN  (/\ V1SegmentLookup(p, s)
               /\ k # 0
               /\ s \notin 0..(Len(patients[k].scans) - 1)) =>
                  /\ resp'.detail = ScanNotFoundDetail
                  /\ inflight' = inflight]_vars

====
